---------------------------- MODULE Spec2Model ----------------------------
(***************************************************************************)
(* A model of the js-game repository: the client WeaponSystem              *)
(* (src/systems/weapon-system.ts), the client CharacterController          *)
(* (src/controllers/character-controller.ts) and the authoritative         *)
(* ServerGame (src/server/server-game.ts).  The three components share no  *)
(* state, so each has its own specification over its own variables:        *)
(* SpecWeapon, SpecController and SpecServer.                              *)
(***************************************************************************)
EXTENDS Integers, Sequences, FiniteSets, TLC

(***************************************************************************)
(* WeaponSystem                                                            *)
(***************************************************************************)
VARIABLES
    currentWeapon,   \* WeaponSystem.currentWeapon
    weaponState,     \* WeaponSystem.weaponState
    isFiring,        \* WeaponSystem.isFiring
    now,             \* the value Date.now() returns, in milliseconds
    advances,        \* how many times the clock has been advanced
    lastFire,        \* history: the last fire() call and what it returned
    lastShotAt,      \* history: per weapon, the time of its last accepted shot
    lastCall         \* history: the last startReload() or update() call, with the
                     \* weapon state it found and the one it left

wsVars == <<currentWeapon, weaponState, isFiring, now, advances, lastFire, lastShotAt, lastCall>>

VARIABLES
    cc,                  \* the CharacterController's fields, and the log of its last update()
    hasLanded,           \* history: update() has detected a landing
    jumpsSinceLanding,   \* history: jump() executions since the last landing
    heldSinceJump        \* history: ticks jump has been held, counted from the last jump()

ccVars == <<cc, hasLanded, jumpsSinceLanding, heldSinceJump>>

VARIABLES
    scc,             \* the ServerCharacterController of one player
    sccSince,        \* history: what has happened since its last jump()
    sccLog           \* history: what its last update() was given and did

scVars == <<scc, sccSince, sccLog>>

VARIABLES
    nextPlayerId,             \* ServerGame.nextPlayerId
    currentSpawnPointIndex,   \* ServerGame.currentSpawnPointIndex
    players,                  \* ServerGame.players, in insertion order
    isGameRunning,            \* ServerGame.isGameRunning
    pendingTicks,             \* timers armed by setTimeout(this.update) and not yet fired
    crashed,                  \* the process has ended with an uncaught exception
    clients,                  \* wss.clients: the open sockets
    accepted,                 \* history: connections accepted so far (the sockets are 1..accepted)
    playerOf,                 \* the playerId constant in the closure of each connection's handlers
    firstMessage,             \* history: the first message sent to each socket
    rosterAtConnect,          \* history: the ids in players when each connection had been added
    closedIds,                \* history: the players whose connection has closed
    sent,                     \* the messages the last handler sent, in order, with their sockets
    handled,                  \* history: the socket and the id field of the message the last step handled
    lastTick,                 \* history: what the last step did, if it ran the loop body of update()
    latest,                   \* history: per socket, the payload of its last input message
    objects                   \* ServerGame.objects, the world colliders

sgVars ==
    <<nextPlayerId, currentSpawnPointIndex, players, isGameRunning, pendingTicks, crashed,
      clients, accepted, playerOf, firstMessage, rosterAtConnect, closedIds, sent,
      handled, lastTick, latest, objects>>

VARIABLES
    gameSockets,     \* per connection made to ServerGame's this.wss: "closed",
                     \* "open", or "silent" (open, the peer answers nothing)
    silentFor,       \* history: heartbeat intervals a silent connection has seen
    wssClients,      \* per connection made to the module-level wss: "closed",
                     \* "alive" (_isAlive true) or "pinged" (_isAlive false)
    terminated       \* history: the connections the heartbeat has terminated

hbVars == <<gameSockets, silentFor, wssClients, terminated>>

VARIABLES
    clPlayerId,      \* NetworkManager.playerId of the client (null at first)
    clPosition,      \* characterController.position of the client
    clRemote,        \* the keys of the client's remotePlayers
    clLog            \* history: the message handled last, if no frame ran since

clVars == <<clPlayerId, clPosition, clRemote, clLog>>

VARIABLES
    spNextPlayerId,  \* ServerGame.nextPlayerId, over a long run of connections
    spIndex,         \* ServerGame.currentSpawnPointIndex
    spPlayers,       \* ServerGame.players
    spSpawnOf        \* history: the spawn point index of each accepted connection

spVars == <<spNextPlayerId, spIndex, spPlayers, spSpawnOf>>

VARIABLES
    ncWs,              \* NetworkClient.ws: the state of the current socket
    ncConnected,       \* NetworkClient.connected
    ncReconnectTimer,  \* NetworkClient.reconnectTimer
    ncId,              \* NetworkClient.id
    ncWorld,           \* NetworkClient.world
    ncTimers,          \* the timers of window.setTimeout that are armed
    ncNextTimer,       \* the id window.setTimeout returns next
    ncAttempts         \* history: the calls of connectToServer()

ncVars == <<ncWs, ncConnected, ncReconnectTimer, ncId, ncWorld, ncTimers, ncNextTimer,
            ncAttempts>>

VARIABLES
    bgPlayers,   \* game-server.js: the Map players, in insertion order
    bgBullets,   \* game-server.js: the array bullets
    bgJoined,    \* the connections accepted so far
    bgCrashed,   \* the interval callback threw: the process is gone
    bgFired,     \* history: of every bullet, its owner and the players it hit
    bgLog        \* history: the bullets the last tick removed at the end of their life

bgVars == <<bgPlayers, bgBullets, bgJoined, bgCrashed, bgFired, bgLog>>

\* enum WeaponType
WeaponType == {"assault_rifle", "pistol", "sniper", "smg"}

\* WEAPON_CONFIGS: fireRate in rounds per minute, reloadTime as configured
WEAPON_CONFIGS ==
    [w \in WeaponType |->
        CASE w = "assault_rifle" -> [damage |-> 25, range |-> 500, fireRate |-> 600,
                                     magazineSize |-> 30, reloadTime |-> 2500]
          [] w = "pistol"        -> [damage |-> 15, range |-> 200, fireRate |-> 300,
                                     magazineSize |-> 12, reloadTime |-> 1500]
          [] w = "sniper"        -> [damage |-> 100, range |-> 1000, fireRate |-> 40,
                                     magazineSize |-> 5, reloadTime |-> 4000]
          [] w = "smg"           -> [damage |-> 18, range |-> 150, fireRate |-> 900,
                                     magazineSize |-> 25, reloadTime |-> 2000]]

\* The clock value at construction.  Date.now() is far larger than any
\* interval of the weapon table; only that matters.
Epoch == 10000000

\* How far the clock may move between two calls
TimeSteps == {50, 3000000}

\* How many times the clock is advanced in a run
MaxAdvances == 6

\* the fresh WeaponState the constructor and switchWeapon build
FreshWeaponState(w) ==
    [currentAmmo     |-> WEAPON_CONFIGS[w].magazineSize,
     isReloading     |-> FALSE,
     lastFireTime    |-> 0,
     reloadStartTime |-> 0]

\* startReload() without its first early return: a reload in progress is
\* started again
StartReloadAgain(ws, w, t) ==
    IF ws.currentAmmo = WEAPON_CONFIGS[w].magazineSize THEN ws
    ELSE [ws EXCEPT !.isReloading = TRUE, !.reloadStartTime = t]

\* startReload(): no-op while reloading or with a full magazine
StartReload(ws, w, t) ==
    IF ws.isReloading THEN ws
    ELSE IF ws.currentAmmo = WEAPON_CONFIGS[w].magazineSize THEN ws
    ELSE [ws EXCEPT !.isReloading = TRUE, !.reloadStartTime = t]

\* elapsed < timeBetweenShots, where timeBetweenShots = 60000 / fireRate is a
\* real number: elapsed < 60000 / fireRate  <=>  elapsed * fireRate < 60000
\* (an elapsed time of a minute or more is past every interval of the table)
TooSoon(elapsed, w) ==
    elapsed < 60000 /\ elapsed * WEAPON_CONFIGS[w].fireRate < 60000

\* the guard of fire()
FireRejected(ws, w, t) ==
    \/ ws.isReloading
    \/ ws.currentAmmo <= 0
    \/ TooSoon(t - ws.lastFireTime, w)

\* fire() without the reload of the empty magazine
FireStateNoReload(ws, w, t) ==
    IF FireRejected(ws, w, t) THEN ws
    ELSE [ws EXCEPT !.currentAmmo = @ - 1, !.lastFireTime = t]

\* fire() that stamps the attempt before it looks at the weapon
FireStateStamped(ws, w, t) ==
    IF FireRejected(ws, w, t) THEN [ws EXCEPT !.lastFireTime = t]
    ELSE LET shot == [ws EXCEPT !.currentAmmo = @ - 1, !.lastFireTime = t]
         IN  IF shot.currentAmmo <= 0 THEN StartReload(shot, w, t) ELSE shot

\* fire(): the weapon state after the call
FireState(ws, w, t) ==
    IF FireRejected(ws, w, t) THEN ws
    ELSE LET shot == [ws EXCEPT !.currentAmmo = @ - 1, !.lastFireTime = t]
         IN  IF shot.currentAmmo <= 0 THEN StartReload(shot, w, t) ELSE shot

\* finishReload() refilling with the magazine size of the constructor's weapon
\* instead of the current weapon's
FinishReloadFirstWeapon(ws, w) ==
    [ws EXCEPT !.currentAmmo = WEAPON_CONFIGS["assault_rifle"].magazineSize,
               !.isReloading = FALSE]

\* finishReload()
FinishReload(ws, w) ==
    [ws EXCEPT !.currentAmmo = WEAPON_CONFIGS[w].magazineSize, !.isReloading = FALSE]

\* the reload part of update(): reloadTime = config.reloadTime * 1000
UpdateReload(ws, w, t) ==
    IF ws.isReloading /\ t - ws.reloadStartTime >= WEAPON_CONFIGS[w].reloadTime * 1000
    THEN FinishReload(ws, w)
    ELSE ws

\* history of a fire() call made at time t in state ws: gap is the time since
\* the last accepted shot of the same weapon (-1 without one, or when rejected)
FireRecord(ws, w, t) ==
    [weapon   |-> w,
     preAmmo  |-> ws.currentAmmo,
     accepted |-> ~FireRejected(ws, w, t),
     gap      |-> IF ~FireRejected(ws, w, t) /\ lastShotAt[w] >= 0
                  THEN t - lastShotAt[w] ELSE -1]

ShotLog(ws, w, t) ==
    IF FireRejected(ws, w, t) THEN lastShotAt ELSE [lastShotAt EXCEPT ![w] = t]

NoFire == [weapon |-> "none", preAmmo |-> 0, accepted |-> FALSE, gap |-> -1]

\* history of a call op that found the weapon state before and left after
Call(op, before, after) == [op |-> op, before |-> before, after |-> after]

NoCall == Call("none", FreshWeaponState("assault_rifle"), FreshWeaponState("assault_rifle"))

InitWeapon ==
    /\ currentWeapon = "assault_rifle"
    /\ weaponState = FreshWeaponState("assault_rifle")
    /\ isFiring = FALSE
    /\ now = Epoch
    /\ advances = 0
    /\ lastFire = NoFire
    /\ lastShotAt = [w \in WeaponType |-> -1]
    /\ lastCall = NoCall

\* fire(targetObjects), called directly
WsFire ==
    /\ weaponState' = FireState(weaponState, currentWeapon, now)
    /\ lastFire' = FireRecord(weaponState, currentWeapon, now)
    /\ lastShotAt' = ShotLog(weaponState, currentWeapon, now)
    /\ lastCall' = NoCall
    /\ UNCHANGED <<currentWeapon, isFiring, now, advances, ccVars, scVars, sgVars, hbVars, clVars, spVars, ncVars, bgVars>>

\* startReload(), called directly (the reload key)
WsStartReload ==
    /\ weaponState' = StartReload(weaponState, currentWeapon, now)
    /\ lastCall' = Call("startReload", weaponState, weaponState')
    /\ UNCHANGED <<currentWeapon, isFiring, now, advances, lastFire, lastShotAt, ccVars, scVars, sgVars, hbVars, clVars, spVars, ncVars, bgVars>>

\* update(deltaTime, objects): fire while the trigger is held, then the reload timer
WsUpdate ==
    /\ LET fired == IF isFiring THEN FireState(weaponState, currentWeapon, now)
                    ELSE weaponState
       IN  weaponState' = UpdateReload(fired, currentWeapon, now)
    /\ lastFire' = IF isFiring THEN FireRecord(weaponState, currentWeapon, now) ELSE lastFire
    /\ lastShotAt' = IF isFiring THEN ShotLog(weaponState, currentWeapon, now) ELSE lastShotAt
    /\ lastCall' = Call("update", weaponState, weaponState')
    /\ UNCHANGED <<currentWeapon, isFiring, now, advances, ccVars, scVars, sgVars, hbVars, clVars, spVars, ncVars, bgVars>>

\* the weapons the player switches between
Arsenal == {"assault_rifle", "sniper"}

\* switchWeapon(weaponType)
WsSwitchWeapon ==
    \E w \in Arsenal :
        /\ w # currentWeapon
        /\ currentWeapon' = w
        /\ weaponState' = FreshWeaponState(w)
        /\ lastCall' = NoCall
        /\ UNCHANGED <<isFiring, now, advances, lastFire, lastShotAt, ccVars, scVars, sgVars, hbVars, clVars, spVars, ncVars, bgVars>>

\* setFiring(isFiring)
WsSetFiring ==
    /\ isFiring' = ~isFiring
    /\ lastCall' = NoCall
    /\ UNCHANGED <<currentWeapon, weaponState, now, advances, lastFire, lastShotAt, ccVars, scVars, sgVars, hbVars, clVars, spVars, ncVars, bgVars>>

\* time passes between two calls
WsAdvance ==
    \E d \in TimeSteps :
        /\ advances < MaxAdvances
        /\ now' = now + d
        /\ advances' = advances + 1
        /\ lastCall' = NoCall
        /\ UNCHANGED <<currentWeapon, weaponState, isFiring, lastFire, lastShotAt, ccVars, scVars, sgVars, hbVars, clVars, spVars, ncVars, bgVars>>

(***************************************************************************)
(* CharacterController                                                     *)
(*                                                                         *)
(* Position and velocity are not state of the model: every geometric query *)
(* of update() (ledge rays, wall rays, the collision check) is an input    *)
(* whose answer the world decides.  Times are in milliseconds,             *)
(* mantleProgress in thousandths, input components in tenths.              *)
(***************************************************************************)
standingHeight == 1700
standingEyeHeight == 1500
crouchHeight == 900
crouchEyeHeight == 700
COYOTE_TIME == 100
JUMP_COOLDOWN == 200
CanJumpGroundedTime == 50
wallRunMaxTime == 3000

\* groundedTimer is only compared with CanJumpGroundedTime and COYOTE_TIME:
\* the model lets it saturate past both
MaxGroundedTimer == 150

\* history counters stop counting here
MaxCount == 3

\* deltaTime of a tick
DeltaTimes == {100}

\* GRAVITY of applyGravity(), in millimetres per second squared
GRAVITY == 22000

\* inputDirection as ClientGame builds it (components -1, 0, 1), and a
\* slight analog push
InputDirections ==
    {[x |-> 0, z |-> 0], [x |-> 0, z |-> -10], [x |-> 10, z |-> 10], [x |-> 1, z |-> 0]}

Inputs == [dir : InputDirections, jump : BOOLEAN, crouch : BOOLEAN, sprint : BOOLEAN]

Min(a, b) == IF a < b THEN a ELSE b
Max(a, b) == IF a > b THEN a ELSE b
Abs(a) == IF a < 0 THEN -a ELSE a
Sign(a) == IF a < 0 THEN -1 ELSE IF a > 0 THEN 1 ELSE 0

\* lengthSq(), in hundredths
LengthSq(d) == d.x * d.x + d.z * d.z

\* normInput: normalised when longer than 1 (only the diagonals of
\* InputDirections are: 1/sqrt(2) is 0.7)
NormInput(d) ==
    IF LengthSq(d) > 100 THEN [x |-> Sign(d.x) * 7, z |-> Sign(d.z) * 7] ELSE d

\* what update() logs about the tick: whether jump() ran, in which block
\* (1: the guarded jump system, 2: the block after the collision check), what
\* the guard's three conditions were at that point, whether the tick ended in
\* an exception or landed, and whether checkFullCollision() was reached and
\* reported isOnGround
NoLog ==
    [jumpBlock |-> 0, canJump |-> FALSE, cooldownElapsed |-> FALSE, grounded |-> FALSE,
     wallJump |-> FALSE, thrown |-> FALSE, landed |-> FALSE,
     collided |-> FALSE, ground |-> FALSE, accel |-> 0, gravity |-> 0,
     mantled |-> FALSE]

\* the constructor
NewController ==
    [isOnGround |-> FALSE, isJumping |-> FALSE, isCrouching |-> FALSE,
     isSliding |-> FALSE, isSprinting |-> FALSE, isGrabbingLedge |-> FALSE,
     canJump |-> TRUE, jumpCooldown |-> 0, groundedTimer |-> 0,
     hasLedge |-> FALSE, mantleProgress |-> 0, isMantling |-> FALSE,
     isWallRunning |-> FALSE, wallRunTimer |-> 0, hasWallNormal |-> FALSE,
     height |-> standingHeight, eyeHeight |-> standingEyeHeight,
     log |-> NoLog]

\* the crouch block that changes the body height and leaves the eyes where
\* they are
CrouchLogicBodyOnly(c, isCrouchPressed) ==
    IF isCrouchPressed
    THEN IF ~c.isCrouching
         THEN [c EXCEPT !.isCrouching = TRUE, !.height = crouchHeight]
         ELSE c
    ELSE IF c.isCrouching
         THEN [c EXCEPT !.isCrouching = FALSE, !.height = standingHeight]
         ELSE c

\* update(): the crouch block at its head
CrouchLogic(c, isCrouchPressed) ==
    IF isCrouchPressed
    THEN IF ~c.isCrouching
         THEN [c EXCEPT !.isCrouching = TRUE, !.height = crouchHeight,
                        !.eyeHeight = crouchEyeHeight]
         ELSE c
    ELSE IF c.isCrouching
         THEN [c EXCEPT !.isCrouching = FALSE, !.height = standingHeight,
                        !.eyeHeight = standingEyeHeight]
         ELSE c

\* update(): the timers
Timers(c, dt) == [c EXCEPT !.jumpCooldown = Max(0, @ - dt)]

\* checkClearanceToStand()
CheckClearanceToStand == TRUE

\* handleCrouching(); a sprinting crouch on the ground starts a slide
HandleCrouching(c, isCrouchPressed) ==
    IF isCrouchPressed /\ ~c.isCrouching /\ ~c.isGrabbingLedge
    THEN [c EXCEPT !.isCrouching = TRUE, !.height = crouchHeight,
                   !.eyeHeight = crouchEyeHeight,
                   !.isSliding = IF c.isSprinting /\ c.isOnGround THEN TRUE ELSE @]
    ELSE IF ~isCrouchPressed /\ c.isCrouching /\ CheckClearanceToStand
    THEN [c EXCEPT !.isCrouching = FALSE, !.isSliding = FALSE,
                   !.height = standingHeight, !.eyeHeight = standingEyeHeight]
    ELSE c

\* handleSprinting() without the look at isCrouching
HandleSprintingAnyway(c, isSprintPressed) ==
    [c EXCEPT !.isSprinting = isSprintPressed]

\* handleSprinting()
HandleSprinting(c, isSprintPressed) ==
    IF c.isCrouching THEN [c EXCEPT !.isSprinting = FALSE]
    ELSE [c EXCEPT !.isSprinting = isSprintPressed]

\* applyMovement(): velocity.x and velocity.z move towards the input's target
\* velocity by the fraction acceleration * deltaTime of the gap; the log keeps
\* that fraction, in thousandths
ApplyMovement(c, dt) ==
    [c EXCEPT !.log.accel = (IF c.isOnGround THEN 30 ELSE 15) * dt]

\* applyGravity(): velocity.y -= GRAVITY * deltaTime; the log keeps the
\* decrement, in millimetres per second
ApplyGravity(c, dt) ==
    [c EXCEPT !.log.gravity = (GRAVITY * dt) \div 1000]

\* handleLedgeGrabbing(): past its guard the rays decide whether a ledge is grabbed
HandleLedgeGrabbing(c) ==
    IF c.isGrabbingLedge \/ c.isOnGround \/ c.isMantling THEN {c}
    ELSE {c, [c EXCEPT !.isGrabbingLedge = TRUE, !.hasLedge = TRUE]}

\* startMantling()
StartMantling(c) ==
    IF ~c.hasLedge THEN c
    ELSE [c EXCEPT !.isMantling = TRUE, !.mantleProgress = 0, !.isGrabbingLedge = FALSE]

\* handleLedgeMovement(): mantle on jump, drop on z < -0.5, shimmy on |x| > 0.1
\* (letting go where the ledge ends)
HandleLedgeMovement(c, n, isJumpPressed) ==
    IF ~c.isGrabbingLedge \/ ~c.hasLedge THEN {c}
    ELSE IF isJumpPressed /\ ~c.isMantling THEN {StartMantling(c)}
    ELSE IF n.z < -5 THEN {[c EXCEPT !.isGrabbingLedge = FALSE, !.hasLedge = FALSE]}
    ELSE IF Abs(n.x) > 1
         THEN {c, [c EXCEPT !.isGrabbingLedge = FALSE, !.hasLedge = FALSE]}
    ELSE {c}

\* updateMantling() that starts the climb over when it reaches the top
UpdateMantlingAgain(c, dt) ==
    IF ~c.isMantling \/ ~c.hasLedge THEN c
    ELSE LET p == c.mantleProgress + (dt * 18) \div 10
         IN  IF p >= 1000
             THEN [c EXCEPT !.mantleProgress = 0]
             ELSE [c EXCEPT !.mantleProgress = p]

\* updateMantling(): mantleProgress += deltaTime * 1.8, in thousandths; at 1
\* the mantle is complete and the ledge point and normal are cleared
UpdateMantling(c, dt) ==
    IF ~c.isMantling \/ ~c.hasLedge THEN c
    ELSE LET p == c.mantleProgress + (dt * 18) \div 10
         IN  IF p >= 1000
             THEN [c EXCEPT !.isMantling = FALSE, !.mantleProgress = 0,
                            !.hasLedge = FALSE, !.log.mantled = TRUE]
             ELSE [c EXCEPT !.mantleProgress = p]

\* stopWallRunning()
StopWallRunning(c) ==
    [c EXCEPT !.isWallRunning = FALSE, !.wallRunTimer = 0, !.hasWallNormal = FALSE]

\* startWallRunning()
StartWallRunning(c) ==
    [c EXCEPT !.isWallRunning = TRUE, !.wallRunTimer = 0, !.hasWallNormal = TRUE]

\* performWallJump()
PerformWallJump(c) ==
    IF ~c.hasWallNormal THEN c
    ELSE LET j == [c EXCEPT !.isOnGround = FALSE, !.isJumping = TRUE,
                            !.groundedTimer = 0, !.log.wallJump = TRUE]
         IN  IF j.isWallRunning THEN StopWallRunning(j) ELSE j

\* attemptLedgeGrabFromWallRun(): the states it can leave, by its return value
LedgeGrabFromWallRun(c, found) ==
    IF ~c.hasWallNormal THEN IF found THEN {} ELSE {c}
    ELSE IF found
         THEN {[c EXCEPT !.isWallRunning = FALSE, !.isGrabbingLedge = TRUE,
                         !.hasLedge = TRUE]}
         ELSE {c}

\* handleWallRunning()
HandleWallRunning(c, dt, n, isJumpPressed) ==
    IF c.isWallRunning
    THEN LET t == [c EXCEPT !.wallRunTimer = @ + dt]
         IN  IF t.wallRunTimer >= (wallRunMaxTime * 15) \div 10 \/ LengthSq(n) < 4
             THEN {StopWallRunning(t)}
             ELSE LET lost ==
                          IF ~t.hasWallNormal THEN {}
                          ELSE IF isJumpPressed
                               THEN LedgeGrabFromWallRun(t, TRUE)
                                    \cup LedgeGrabFromWallRun(t, FALSE)
                               ELSE {StopWallRunning(t)}
                      kept ==
                          IF isJumpPressed
                          THEN LedgeGrabFromWallRun(t, TRUE)
                               \cup { PerformWallJump(s) : s \in LedgeGrabFromWallRun(t, FALSE) }
                          ELSE {t}
                  IN  lost \cup kept
    ELSE IF LengthSq(n) < 16 THEN {c}
    ELSE {c, StartWallRunning(c)}

\* jump() without the isJumping flag
JumpNoFlag(c, block, grounded) ==
    LET up  == IF c.isCrouching
               THEN [c EXCEPT !.isCrouching = FALSE, !.isSliding = FALSE,
                              !.height = standingHeight, !.eyeHeight = standingEyeHeight]
               ELSE c
    IN  [up EXCEPT !.isOnGround = FALSE, !.groundedTimer = 0,
                   !.log.jumpBlock = block, !.log.canJump = c.canJump,
                   !.log.cooldownElapsed = (c.jumpCooldown <= 0),
                   !.log.grounded = grounded, !.log.thrown = TRUE]

\* jump(), called from the given block of update() with the given ground
\* condition: it stands the character up, sets the jump velocity and the
\* flags, and then reads the undeclared name jumpMultiplier in its log call,
\* which throws a ReferenceError out of update()
Jump(c, block, grounded) ==
    LET up  == IF c.isCrouching
               THEN IF CheckClearanceToStand
                    THEN [c EXCEPT !.isCrouching = FALSE, !.isSliding = FALSE,
                                   !.height = standingHeight,
                                   !.eyeHeight = standingEyeHeight]
                    ELSE c
               ELSE c
        log == [c.log EXCEPT !.jumpBlock = block, !.canJump = c.canJump,
                             !.cooldownElapsed = (c.jumpCooldown <= 0),
                             !.grounded = grounded]
    IN  IF c.isCrouching /\ ~CheckClearanceToStand
        THEN [c EXCEPT !.isOnGround = FALSE, !.log = log]
        ELSE [up EXCEPT !.isOnGround = FALSE, !.isJumping = TRUE, !.groundedTimer = 0,
                        !.log = [log EXCEPT !.thrown = TRUE]]

\* the ground condition of the jump system: on the ground, or in coyote time
GroundedOrCoyote(c) ==
    c.isOnGround \/ (c.groundedTimer > 0 /\ c.groundedTimer < COYOTE_TIME)

\* update(): the jump system (ground jump, else wall jump, else ledge grab),
\* and the release of canJump
JumpSystem(c, isJumpPressed) ==
    LET tried ==
            IF isJumpPressed /\ c.canJump /\ c.jumpCooldown <= 0
            THEN IF GroundedOrCoyote(c)
                 THEN LET j == Jump(c, 1, TRUE)
                      IN  IF j.log.thrown THEN {j}
                          ELSE {[j EXCEPT !.canJump = FALSE,
                                          !.jumpCooldown = JUMP_COOLDOWN]}
                 ELSE {[PerformWallJump([c EXCEPT !.hasWallNormal = TRUE])
                            EXCEPT !.canJump = FALSE, !.jumpCooldown = JUMP_COOLDOWN]}
                      \cup HandleLedgeGrabbing(c)
            ELSE {c}
    IN  { IF ~s.log.thrown /\ ~isJumpPressed /\ ~s.canJump /\ s.jumpCooldown <= 0
          THEN [s EXCEPT !.canJump = TRUE] ELSE s : s \in tried }

\* update(): the branch taken after handleLedgeGrabbing()
Movement(c, dt, n, isJumpPressed) ==
    IF c.isGrabbingLedge THEN HandleLedgeMovement(c, n, isJumpPressed)
    ELSE IF c.isMantling THEN {UpdateMantling(c, dt)}
    ELSE LET W == IF ~c.isOnGround /\ LengthSq(n) > 0
                  THEN HandleWallRunning(c, dt, n, isJumpPressed)
                  ELSE {c}
             G == { IF ~w.isOnGround /\ ~w.isGrabbingLedge /\ ~w.isMantling
                    THEN ApplyGravity(w, dt) ELSE w : w \in W }
         IN  UNION { JumpSystem(w, isJumpPressed) : w \in G }

\* update(): checkFullCollision() decides isOnGround and whether the feet are
\* within GROUND_TOLERANCE of the ground below; then the jump "even if
\* slightly above ground"
CollideAndJump(c, isJumpPressed) ==
    UNION { LET s == [c EXCEPT !.isOnGround = onGround,
                               !.log.collided = TRUE, !.log.ground = onGround]
            IN  IF isJumpPressed /\ ~s.isJumping /\ (s.isOnGround \/ nearGround)
                THEN {Jump(s, 2, GroundedOrCoyote(s))}
                ELSE {s}
            : onGround \in BOOLEAN, nearGround \in BOOLEAN }

\* onLanding()
OnLanding(c) == [c EXCEPT !.isJumping = FALSE, !.canJump = TRUE, !.log.landed = TRUE]

\* update(): the end of wall running on the ground, the ground state change
\* detection and the grounded timer
GroundState(c, wasOnGround, dt) ==
    LET s1 == IF c.isOnGround /\ c.isWallRunning THEN StopWallRunning(c) ELSE c
        s2 == IF ~wasOnGround /\ s1.isOnGround THEN OnLanding(s1)
              ELSE IF wasOnGround /\ ~s1.isOnGround
                   THEN [s1 EXCEPT !.groundedTimer = 0]
                   ELSE s1
    IN  IF s2.isOnGround
        THEN LET t == Min(s2.groundedTimer + dt, MaxGroundedTimer)
             IN  [s2 EXCEPT !.groundedTimer = t,
                            !.canJump = IF t > CanJumpGroundedTime /\ s2.jumpCooldown <= 0
                                        THEN TRUE ELSE @]
        ELSE s2

\* update(deltaTime, objects, inputDirection, isJumpPressed, isCrouchPressed,
\* isSprintPressed): the states the tick can end in
Update(c, in, dt) ==
    LET n   == NormInput(in.dir)
        c1  == CrouchLogic([c EXCEPT !.log = NoLog], in.crouch)
        was == c1.isOnGround
        c2  == HandleSprinting(HandleCrouching(Timers(c1, dt), in.crouch), in.sprint)
        c3  == ApplyMovement(c2, dt)
        A   == UNION { Movement(s, dt, n, in.jump) : s \in HandleLedgeGrabbing(c3) }
        \* an exception thrown by jump() ends the tick where it is
        B   == UNION { IF s.log.thrown THEN {s} ELSE CollideAndJump(s, in.jump) : s \in A }
    IN  { IF s.log.thrown THEN s ELSE GroundState(s, was, dt) : s \in B }

InitController ==
    /\ cc = NewController
    /\ hasLanded = FALSE
    /\ jumpsSinceLanding = 0
    /\ heldSinceJump = 0

\* one tick of the game loop
CcUpdate ==
    \E in \in Inputs, dt \in DeltaTimes :
        \E r \in Update(cc, in, dt) :
            /\ cc' = r
            /\ hasLanded' = (hasLanded \/ r.log.landed)
            /\ jumpsSinceLanding' =
                   IF r.log.landed THEN 0
                   ELSE IF r.log.jumpBlock # 0 THEN Min(jumpsSinceLanding + 1, MaxCount)
                   ELSE jumpsSinceLanding
            /\ heldSinceJump' =
                   IF r.log.jumpBlock # 0 THEN 1
                   ELSE IF in.jump /\ heldSinceJump > 0 THEN Min(heldSinceJump + 1, MaxCount)
                   ELSE 0
            /\ UNCHANGED <<wsVars, scVars, sgVars, hbVars, clVars, spVars, ncVars, bgVars>>

(***************************************************************************)
(* ServerCharacterController                                               *)
(*                                                                         *)
(* The controller the server keeps per player.  Of the velocity the model  *)
(* keeps the vertical component, in millimetres per second; the result of  *)
(* CollisionSystem.checkCollision() is decided by the world.               *)
(***************************************************************************)
\* GameConfig.player.jumpForce
jumpForce == 16000

\* the gravity of update(), in millimetres per second squared
ServerGravity == 9810

\* the jumpCooldown jump() sets
ServerJumpCooldown == 500

\* the fall speed at which the model stops accelerating
MaxFallSpeed == 2000

\* deltaTime of a server tick
ServerDeltaTimes == {100, 300}

\* the fields of InputState that update() and the jump argument read
ServerInputs == [jump : BOOLEAN, crouch : BOOLEAN, sprint : BOOLEAN]

\* the fields of CollisionResult that update() reads
CollisionResults ==
    [isOnGround : BOOLEAN, canGrabLedge : BOOLEAN, hasWallCollision : BOOLEAN]

\* the constructor
NewServerController ==
    [isOnGround |-> FALSE, isJumping |-> FALSE, isCrouching |-> FALSE,
     isSprinting |-> FALSE, canJump |-> TRUE, jumpCooldown |-> 0,
     isWallRunning |-> FALSE, wallRunTimer |-> 0, isGrabbingLedge |-> FALSE,
     velocityY |-> 0]

\* handleCrouching() and handleSprinting()
ServerCrouchSprint(c, in) ==
    [c EXCEPT !.isCrouching = in.crouch, !.isSprinting = in.sprint /\ ~in.crouch]

\* update(): isOnGround from the collision result, then the ground clamp or
\* gravity
ServerGround(c, col, dt) ==
    IF col.isOnGround
    THEN [c EXCEPT !.isOnGround = TRUE, !.velocityY = 0, !.isJumping = FALSE,
                   !.isWallRunning = FALSE, !.wallRunTimer = 0]
    ELSE [c EXCEPT !.isOnGround = FALSE,
                   !.velocityY = Max(@ - (ServerGravity * dt) \div 1000, -MaxFallSpeed)]

\* handleLedgeGrabbing()
ServerLedgeGrabbing(c, col, jump) ==
    IF col.canGrabLedge /\ jump
    THEN [c EXCEPT !.isGrabbingLedge = TRUE, !.velocityY = 0]
    ELSE c

\* handleWallRunning()
ServerWallRunning(c, col, dt) ==
    IF ~c.isOnGround /\ col.hasWallCollision /\ c.wallRunTimer > 0
    THEN [c EXCEPT !.isWallRunning = TRUE, !.velocityY = 0, !.wallRunTimer = @ - dt]
    ELSE [c EXCEPT !.isWallRunning = FALSE]

\* jump()
ServerJump(c) ==
    [c EXCEPT !.velocityY = jumpForce, !.isJumping = TRUE, !.canJump = FALSE,
              !.jumpCooldown = ServerJumpCooldown]

\* whether update() calls jump()
ServerJumps(c, jump) == jump /\ c.canJump /\ c.isOnGround

\* update(deltaTime, collisionObjects, input, jump), up to the jump
ServerBeforeJump(c, in, col, dt) ==
    LET c1 == [c EXCEPT !.jumpCooldown = Max(0, @ - dt)]
        c2 == ServerCrouchSprint(c1, in)
        c3 == ServerGround(c2, col, dt)
        c4 == ServerLedgeGrabbing(c3, col, in.jump)
    IN  ServerWallRunning(c4, col, dt)

\* update(deltaTime, collisionObjects, input, jump)
ServerUpdate(c, in, col, dt) ==
    LET b == ServerBeforeJump(c, in, col, dt)
    IN  IF ServerJumps(b, in.jump) THEN ServerJump(b) ELSE b

NoSince == [jumped |-> FALSE, airborne |-> FALSE, landed |-> FALSE, released |-> FALSE]

NoServerLog ==
    [pressed |-> FALSE, ground |-> FALSE, cooldownElapsed |-> FALSE,
     ready |-> FALSE, jumped |-> FALSE]

InitServerController ==
    /\ scc = NewServerController
    /\ sccSince = NoSince
    /\ sccLog = NoServerLog

\* one tick of the server loop for this player
SccUpdate ==
    \E in \in ServerInputs, col \in CollisionResults, dt \in ServerDeltaTimes :
        LET b      == ServerBeforeJump(scc, in, col, dt)
            jumped == ServerJumps(b, in.jump)
        IN  /\ scc' = ServerUpdate(scc, in, col, dt)
            /\ sccLog' = [pressed |-> in.jump, ground |-> col.isOnGround,
                          cooldownElapsed |-> (b.jumpCooldown <= 0),
                          ready |-> (sccSince.landed /\ sccSince.released),
                          jumped |-> jumped]
            /\ sccSince' =
                   IF jumped
                   THEN [jumped |-> TRUE, airborne |-> FALSE, landed |-> FALSE,
                         released |-> FALSE]
                   ELSE [jumped   |-> sccSince.jumped,
                         airborne |-> sccSince.airborne
                                      \/ (sccSince.jumped /\ ~col.isOnGround),
                         landed   |-> sccSince.landed
                                      \/ (sccSince.airborne /\ col.isOnGround),
                         released |-> sccSince.released
                                      \/ (sccSince.jumped /\ ~in.jump)]
            /\ UNCHANGED <<wsVars, ccVars, sgVars, hbVars, clVars, spVars, ncVars, bgVars>>

(***************************************************************************)
(* ServerGame                                                              *)
(*                                                                         *)
(* A player id `player_<n>` is the number n.  Of a player's entry the      *)
(* model keeps the spawn point, the latched input, the weapon and the time *)
(* since lastFireTime; the ServerCharacterController's own state is not    *)
(* part of it.  Of an input payload it keeps the two fields the tick       *)
(* reads, and whether the payload is there at all.                         *)
(***************************************************************************)

\* connections the server accepts over its lifetime
MaxConnections == 2

\* timers that may be armed at once
MaxPending == 2

\* the time since lastFireTime is only compared with a weapon's fire
\* interval: it saturates past the longest one of the table
MaxElapsed == 60000 \div WEAPON_CONFIGS["sniper"].fireRate + 500

\* Date.now() between two ticks
TickSteps == {1000}

spawnPoints == 4

\* the value of a property that was never assigned
Undefined == -1

\* playerState.input: the payload of an `input` message, or nothing
InputPayloads ==
    {[defined |-> TRUE, jump |-> FALSE, fire |-> FALSE],
     [defined |-> TRUE, jump |-> TRUE, fire |-> TRUE],
     [defined |-> FALSE, jump |-> FALSE, fire |-> FALSE]}

\* weapon names a client sends: one of the table, one of no table, one that
\* every object inherits, and none at all
WeaponNames == {"sniper", "rocket_launcher", "constructor", "undefined"}

\* the properties Object.prototype gives the WEAPON_CONFIGS object literal
ObjectPrototypeKeys ==
    {"constructor", "toString", "valueOf", "hasOwnProperty", "isPrototypeOf",
     "propertyIsEnumerable", "toLocaleString", "__proto__"}

\* WEAPON_CONFIGS[name] is truthy
HasWeaponConfig(name) == name \in WeaponType \/ name \in ObjectPrototypeKeys

\* the id field a client puts into a message: none, or the id of the first player
ClientIds == {Undefined, 0}

NoPayload == [defined |-> FALSE, jump |-> FALSE, fire |-> FALSE]

\* what a client can send: text that is no JSON, the JSON value null, or an
\* object with (or without) a type, an id, an input payload and a weapon name
ClientMessages ==
    {[kind |-> k, type |-> "undefined", id |-> Undefined, input |-> NoPayload,
      weapon |-> "undefined"] : k \in {"garbage", "null", "object"}}
    \cup {[kind |-> "object", type |-> "input", id |-> n, input |-> p, weapon |-> "undefined"] :
        n \in ClientIds, p \in InputPayloads}
    \cup {[kind |-> "object", type |-> "weapon_switch", id |-> Undefined, input |-> NoPayload,
           weapon |-> w] : w \in WeaponNames}

\* the socket of the message a step handled, and the id the message carried
Handled(c, n) == [conn |-> c, id |-> n]

NoneHandled == Handled(0, Undefined)

\* the roster entry of the id a message carries, if it carries one
EntryOfMessageId(c, m) == IF m.id # Undefined THEN m.id ELSE playerOf[c]

\* the roster entry a message handler works on: that of the playerId constant
\* in the closure of the connection's handlers
EntryOf(c, m) == playerOf[c]

\* a message of the server
Msg(type, playerId, ids, weapon) ==
    [type |-> type, playerId |-> playerId, ids |-> ids, weapon |-> weapon]

NoMsg == Msg("none", Undefined, {}, "undefined")

\* the entry players.set() stores for a new connection
InitialInput == [defined |-> TRUE, jump |-> FALSE, fire |-> FALSE]

NewPlayer(id, spawn) ==
    [id |-> id, spawn |-> spawn,
     input |-> InitialInput,
     currentWeapon |-> "pistol", sinceLastFire |-> MaxElapsed]

\* Array.from(this.players.values()).map(p => p.id)
Ids(ps) == { ps[i].id : i \in DOMAIN ps }

\* this.players.get(id): the index of the entry, 0 if there is none
IndexOf(ps, id) ==
    IF id \in Ids(ps) THEN CHOOSE i \in DOMAIN ps : ps[i].id = id ELSE 0

\* this.players.delete(id)
Delete(ps, id) == SelectSeq(ps, LAMBDA q : q.id # id)

\* wss.clients.forEach: the sockets in the order they were added
RECURSIVE InOrder(_)
InOrder(S) ==
    IF S = {} THEN <<>>
    ELSE LET c == CHOOSE x \in S : \A y \in S : x <= y
         IN  <<c>> \o InOrder(S \ {c})

\* the playerId property of a socket, which no code assigns
SocketPlayerId(c) == Undefined

\* broadcastToAll(message), over the open sockets cs
BroadcastToAll(cs, m) ==
    LET order == InOrder(cs) IN [i \in DOMAIN order |-> [to |-> order[i], msg |-> m]]

\* broadcastToAllExcept(exceptPlayerId, message)
BroadcastToAllExcept(cs, exceptPlayerId, m) ==
    LET order == InOrder({ c \in cs : SocketPlayerId(c) # exceptPlayerId })
    IN  [i \in DOMAIN order |-> [to |-> order[i], msg |-> m]]

\* firstMessage after the sends of out
FirstAfter(first, out) ==
    [c \in DOMAIN first |->
        IF first[c] # NoMsg \/ ~\E i \in DOMAIN out : out[i].to = c THEN first[c]
        ELSE out[CHOOSE i \in DOMAIN out :
                    out[i].to = c /\ \A j \in DOMAIN out : out[j].to = c => i <= j].msg]

\* the index of the spawn point after the one a connection got, without
\* the wrap
NextSpawnPointIndexNoWrap(i) == i + 1

\* (currentSpawnPointIndex + 1) % spawnPoints.length
NextSpawnPointIndex(i) == (i + 1) % spawnPoints

\* the id without a counter: the size of the roster
AssignIdFromRoster(n, ps) == Len(ps)

\* `player_${this.nextPlayerId++}`
AssignId(n, ps) == n

\* the player list of an init message built before players.set()
InitPlayersBeforeSet(ps, id) == Ids(ps) \ {id}

\* the players of the init message
InitPlayers(ps, id) == Ids(ps)

\* the fire gate of the tick: timeSinceLastFire > 1000 / (fireRate / 60);
\* for a weapon name that is no weapon the bound is NaN and the test fails
ServerFireAllowed(p) ==
    /\ p.currentWeapon \in WeaponType
    /\ p.sinceLastFire * WEAPON_CONFIGS[p.currentWeapon].fireRate > 60000

\* a pass that takes the fire press back once the shot is fired
UpdatePlayerClearFire(p) ==
    IF p.input.fire /\ ServerFireAllowed(p)
    THEN [p EXCEPT !.sinceLastFire = 0, !.input.fire = FALSE]
    ELSE p

\* update(): one pass of players.forEach over a player
UpdatePlayer(p) ==
    IF p.input.fire /\ ServerFireAllowed(p) THEN [p EXCEPT !.sinceLastFire = 0] ELSE p

\* update(): players.forEach, d milliseconds after the last tick; reading
\* playerState.input.jump of a player without input throws a TypeError
UpdatePlayers(ps, d) ==
    LET aged == [i \in DOMAIN ps |-> [ps[i] EXCEPT !.sinceLastFire = Min(@ + d, MaxElapsed)]]
        bad  == { i \in DOMAIN ps : ~ps[i].input.defined }
        stop == IF bad = {} THEN Len(ps) + 1 ELSE CHOOSE i \in bad : \A j \in bad : i <= j
    IN  [threw   |-> bad # {},
         players |-> [i \in DOMAIN ps |-> IF i < stop THEN UpdatePlayer(aged[i]) ELSE aged[i]],
         updated |-> [i \in 1..(stop - 1) |-> ps[i].id],
         applied |-> [i \in 1..(stop - 1) |-> ps[i].input]]

\* a world with a crate of WorldBuilder.createCrate in it
BuildWorldWithCrate ==
    <<[x |-> 0, y |-> 0, z |-> 0, isMovable |-> FALSE],
      [x |-> 100, y |-> 25, z |-> 0, isMovable |-> TRUE]>>

\* buildWorld(): the ground and the two boxes of ServerWorldBuilder.build(),
\* none of them with userData.isMovable
BuildWorld ==
    <<[x |-> 0, y |-> 0, z |-> 0, isMovable |-> FALSE],
      [x |-> 100, y |-> 25, z |-> 0, isMovable |-> FALSE],
      [x |-> -100, y |-> 25, z |-> 100, isMovable |-> FALSE]>>

\* how far a collision pushes a movable object along x
PushSteps == {-1, 1}

\* CollisionSystem.checkCollision(): what a horizontal ray hitting object
\* `hit` (0: none) does to the objects
CheckCollisionPush(objs, hit, push) ==
    IF hit # 0 /\ objs[hit].isMovable
    THEN [objs EXCEPT ![hit].x = @ + push]
    ELSE objs

\* the collision checks of n character updates in a row
RECURSIVE CheckCollisions(_, _, _, _)
CheckCollisions(objs, hit, push, n) ==
    IF n = 0 THEN objs
    ELSE CheckCollisions(CheckCollisionPush(objs, hit, push), hit, push, n - 1)

\* the log of a step that did not run the loop body of update()
NoTick == [ran |-> FALSE, roster |-> {}, updated |-> <<>>, applied |-> <<>>]

\* this.update(), with `pending` timers armed besides it
RunUpdate(running, pending, d) ==
    IF ~running
    THEN /\ players' = players
         /\ sent' = <<>>
         /\ pendingTicks' = pending
         /\ crashed' = FALSE
         /\ lastTick' = NoTick
         /\ objects' = objects
    ELSE LET t == UpdatePlayers(players, d)
         IN  /\ players' = t.players
             /\ crashed' = t.threw
             /\ sent' = IF t.threw THEN <<>>
                        ELSE BroadcastToAll(clients, Msg("game_state", Undefined, Ids(t.players), "undefined"))
             /\ pendingTicks' = IF t.threw THEN pending ELSE pending + 1
             /\ lastTick' = [ran |-> TRUE, roster |-> Ids(players), updated |-> t.updated,
                             applied |-> t.applied]
             /\ \E hit \in 0..Len(objects), push \in PushSteps :
                    objects' = CheckCollisions(objects, hit, push, Len(t.updated))

InitServer ==
    /\ nextPlayerId = 0
    /\ currentSpawnPointIndex = 0
    /\ players = <<>>
    /\ isGameRunning = FALSE
    /\ pendingTicks = 0
    /\ crashed = FALSE
    /\ clients = {}
    /\ accepted = 0
    /\ playerOf = [c \in 1..MaxConnections |-> Undefined]
    /\ firstMessage = [c \in 1..MaxConnections |-> NoMsg]
    /\ rosterAtConnect = [c \in 1..MaxConnections |-> {}]
    /\ closedIds = {}
    /\ sent = <<>>
    /\ handled = NoneHandled
    /\ lastTick = NoTick
    /\ latest = [c \in 1..MaxConnections |-> NoPayload]
    /\ objects = BuildWorld

\* wss.on('connection')
SgConnect ==
    /\ ~crashed
    /\ accepted < MaxConnections
    /\ LET c      == accepted + 1
           id     == AssignId(nextPlayerId, players)
           roster == Append(players, NewPlayer(id, currentSpawnPointIndex))
           out    == <<[to |-> c, msg |-> Msg("init", id, InitPlayers(roster, id), "undefined")]>>
                     \o BroadcastToAllExcept(clients \cup {c}, id,
                                             Msg("player_connect", id, {}, "pistol"))
       IN  /\ accepted' = c
           /\ clients' = clients \cup {c}
           /\ nextPlayerId' = nextPlayerId + 1
           /\ currentSpawnPointIndex' = NextSpawnPointIndex(currentSpawnPointIndex)
           /\ players' = roster
           /\ playerOf' = [playerOf EXCEPT ![c] = id]
           /\ rosterAtConnect' = [rosterAtConnect EXCEPT ![c] = Ids(roster)]
           /\ sent' = out
           /\ firstMessage' = FirstAfter(firstMessage, out)
    /\ UNCHANGED <<isGameRunning, pendingTicks, crashed, closedIds>>
    /\ handled' = NoneHandled
    /\ lastTick' = NoTick
    /\ latest' = [latest EXCEPT ![accepted + 1] = InitialInput]
    /\ UNCHANGED objects
    /\ UNCHANGED <<wsVars, ccVars, scVars, hbVars, clVars, spVars, ncVars, bgVars>>

\* ws.on('message')
SgMessage ==
    /\ ~crashed
    /\ \E c \in clients, m \in ClientMessages :
        LET i      == IndexOf(players, EntryOf(c, m))
            switch == m.kind = "object" /\ i # 0 /\ m.type = "weapon_switch"
                      /\ HasWeaponConfig(m.weapon)
            out    == IF switch
                      THEN BroadcastToAll(clients, Msg("weapon_switch", playerOf[c], {}, m.weapon))
                      ELSE <<>>
        IN  /\ players' =
                   IF m.kind # "object" \/ i = 0 THEN players
                   ELSE IF m.type = "input" THEN [players EXCEPT ![i].input = m.input]
                   ELSE IF switch THEN [players EXCEPT ![i].currentWeapon = m.weapon]
                   ELSE players
            /\ sent' = out
            /\ firstMessage' = FirstAfter(firstMessage, out)
            /\ handled' = Handled(c, m.id)
            /\ latest' = IF m.kind = "object" /\ m.type = "input"
                          THEN [latest EXCEPT ![c] = m.input] ELSE latest
    /\ UNCHANGED <<nextPlayerId, currentSpawnPointIndex, isGameRunning, pendingTicks, crashed,
                   clients, accepted, playerOf, rosterAtConnect, closedIds>>
    /\ lastTick' = NoTick
    /\ UNCHANGED objects
    /\ UNCHANGED <<wsVars, ccVars, scVars, hbVars, clVars, spVars, ncVars, bgVars>>

\* ws.on('close')
SgClose ==
    /\ ~crashed
    /\ \E c \in clients :
        LET out == BroadcastToAll(clients \ {c}, Msg("player_disconnect", playerOf[c], {}, "undefined"))
        IN  /\ clients' = clients \ {c}
            /\ players' = Delete(players, playerOf[c])
            /\ closedIds' = closedIds \cup {playerOf[c]}
            /\ latest' = [latest EXCEPT ![c] = NoPayload]
            /\ sent' = out
            /\ firstMessage' = FirstAfter(firstMessage, out)
    /\ UNCHANGED <<nextPlayerId, currentSpawnPointIndex, isGameRunning, pendingTicks, crashed,
                   accepted, playerOf, rosterAtConnect>>
    /\ handled' = NoneHandled
    /\ lastTick' = NoTick
    /\ UNCHANGED objects
    /\ UNCHANGED <<wsVars, ccVars, scVars, hbVars, clVars, spVars, ncVars, bgVars>>

\* ws.on('error'): the error is logged
SgError ==
    /\ ~crashed
    /\ clients # {}
    /\ sent' = <<>>
    /\ UNCHANGED <<nextPlayerId, currentSpawnPointIndex, players, isGameRunning, pendingTicks,
                   crashed, clients, accepted, playerOf, firstMessage, rosterAtConnect,
                   closedIds>>
    /\ handled' = NoneHandled
    /\ lastTick' = NoTick
    /\ UNCHANGED latest
    /\ UNCHANGED objects
    /\ UNCHANGED <<wsVars, ccVars, scVars, hbVars, clVars, spVars, ncVars, bgVars>>

\* start(): the first update() runs inside it
SgStart ==
    /\ ~crashed
    /\ pendingTicks < MaxPending
    /\ IF isGameRunning
       THEN /\ sent' = <<>>
            /\ lastTick' = NoTick
            /\ UNCHANGED <<players, isGameRunning, pendingTicks, crashed, objects>>
       ELSE /\ isGameRunning' = TRUE
            /\ \E d \in TickSteps : RunUpdate(TRUE, pendingTicks, d)
    /\ firstMessage' = FirstAfter(firstMessage, sent')
    /\ UNCHANGED <<nextPlayerId, currentSpawnPointIndex, clients, accepted, playerOf,
                   rosterAtConnect, closedIds>>
    /\ handled' = NoneHandled
    /\ UNCHANGED latest
    /\ UNCHANGED <<wsVars, ccVars, scVars, hbVars, clVars, spVars, ncVars, bgVars>>

\* stop()
SgStop ==
    /\ ~crashed
    /\ isGameRunning' = FALSE
    /\ sent' = <<>>
    /\ UNCHANGED <<nextPlayerId, currentSpawnPointIndex, players, pendingTicks, crashed,
                   clients, accepted, playerOf, firstMessage, rosterAtConnect, closedIds>>
    /\ handled' = NoneHandled
    /\ lastTick' = NoTick
    /\ UNCHANGED latest
    /\ UNCHANGED objects
    /\ UNCHANGED <<wsVars, ccVars, scVars, hbVars, clVars, spVars, ncVars, bgVars>>

\* a timer armed by setTimeout(this.update, 1000 / 60) fires
SgTick ==
    /\ ~crashed
    /\ pendingTicks > 0
    /\ \E d \in TickSteps : RunUpdate(isGameRunning, pendingTicks - 1, d)
    /\ firstMessage' = FirstAfter(firstMessage, sent')
    /\ UNCHANGED <<nextPlayerId, currentSpawnPointIndex, isGameRunning, clients, accepted,
                   playerOf, rosterAtConnect, closedIds>>
    /\ handled' = NoneHandled
    /\ UNCHANGED latest
    /\ UNCHANGED <<wsVars, ccVars, scVars, hbVars, clVars, spVars, ncVars, bgVars>>

(***************************************************************************)
(* ServerGame: connections coming and going over a long run                *)
(*                                                                         *)
(* The connection and close handlers alone, with what they do to           *)
(* nextPlayerId, currentSpawnPointIndex and the roster, for more           *)
(* connections than there are spawn points.                                *)
(***************************************************************************)
\* how many connections the server accepts in a run
MaxAccepted == 6

InitSpawn ==
    /\ spNextPlayerId = 0
    /\ spIndex = 0
    /\ spPlayers = <<>>
    /\ spSpawnOf = <<>>

\* wss.on('connection'): the new controller is put on
\* spawnPoints[currentSpawnPointIndex], the index moves on, players.set()
SpConnect ==
    /\ Len(spSpawnOf) < MaxAccepted
    /\ LET id == AssignId(spNextPlayerId, spPlayers)
       IN  /\ spNextPlayerId' = spNextPlayerId + 1
           /\ spPlayers' = Append(spPlayers, NewPlayer(id, spIndex))
           /\ spSpawnOf' = Append(spSpawnOf, spIndex)
    /\ spIndex' = NextSpawnPointIndex(spIndex)
    /\ UNCHANGED <<wsVars, ccVars, scVars, sgVars, hbVars, clVars, ncVars, bgVars>>

\* ws.on('close'): players.delete(playerId)
SpClose ==
    \E i \in DOMAIN spPlayers :
        /\ spPlayers' = Delete(spPlayers, spPlayers[i].id)
        /\ UNCHANGED <<spNextPlayerId, spIndex, spSpawnOf>>
        /\ UNCHANGED <<wsVars, ccVars, scVars, sgVars, hbVars, clVars, ncVars, bgVars>>

(***************************************************************************)
(* NetworkClient (src/network/client.ts)                                   *)
(*                                                                         *)
(* Timer ids are the positive numbers window.setTimeout returns; null is   *)
(* Null.  A server's id and a world snapshot are small numbers.            *)
(***************************************************************************)
\* timers the page arms in a run
MaxTimers == 3

\* calls of connectToServer() in a run
MaxAttempts == 4

Null == 0

\* what the server sends: welcome with an id, world with a snapshot
ServerMessages == [type : {"welcome"}, id : {1, 2}] \cup [type : {"world"}, world : {1, 2}]

\* the constructor: connectToServer(url)
InitNetworkClient ==
    /\ ncWs = "connecting"
    /\ ncConnected = FALSE
    /\ ncReconnectTimer = Null
    /\ ncId = Null
    /\ ncWorld = Null
    /\ ncTimers = {}
    /\ ncNextTimer = 1
    /\ ncAttempts = 1

\* the 'open' listener
NcOpen ==
    /\ ncWs = "connecting"
    /\ ncWs' = "open"
    /\ ncConnected' = TRUE
    /\ IF ncReconnectTimer # Null
       THEN /\ ncTimers' = ncTimers \ {ncReconnectTimer}
            /\ ncReconnectTimer' = Null
       ELSE UNCHANGED <<ncTimers, ncReconnectTimer>>
    /\ UNCHANGED <<ncId, ncWorld, ncNextTimer, ncAttempts>>
    /\ UNCHANGED <<wsVars, ccVars, scVars, sgVars, hbVars, clVars, spVars, bgVars>>

\* the 'message' listener
NcMessage ==
    \E data \in ServerMessages :
        /\ ncWs = "open"
        /\ ncId' = IF data.type = "welcome" THEN data.id ELSE ncId
        /\ ncWorld' = IF data.type = "world" THEN data.world ELSE ncWorld
        /\ UNCHANGED <<ncWs, ncConnected, ncReconnectTimer, ncTimers, ncNextTimer, ncAttempts>>
        /\ UNCHANGED <<wsVars, ccVars, scVars, sgVars, hbVars, clVars, spVars, bgVars>>

\* the 'close' listener, of a socket that was open or never got there
NcClose ==
    /\ ncWs \in {"connecting", "open"}
    /\ ncWs' = "closed"
    /\ ncConnected' = FALSE
    /\ IF ncReconnectTimer = Null
       THEN /\ ncNextTimer <= MaxTimers
            /\ ncReconnectTimer' = ncNextTimer
            /\ ncTimers' = ncTimers \cup {ncNextTimer}
            /\ ncNextTimer' = ncNextTimer + 1
       ELSE UNCHANGED <<ncReconnectTimer, ncTimers, ncNextTimer>>
    /\ UNCHANGED <<ncId, ncWorld, ncAttempts>>
    /\ UNCHANGED <<wsVars, ccVars, scVars, sgVars, hbVars, clVars, spVars, bgVars>>

\* the callback of window.setTimeout, 3000 ms later: connectToServer(url)
NcTimer ==
    \E t \in ncTimers :
        /\ ncAttempts < MaxAttempts
        /\ ncTimers' = ncTimers \ {t}
        /\ ncWs' = "connecting"
        /\ ncAttempts' = ncAttempts + 1
        /\ UNCHANGED <<ncConnected, ncReconnectTimer, ncId, ncWorld, ncNextTimer>>
        /\ UNCHANGED <<wsVars, ccVars, scVars, sgVars, hbVars, clVars, spVars, bgVars>>

(***************************************************************************)
(* The bullet-based game server (deploy/dist/src/server/game-server.js)    *)
(*                                                                         *)
(* Positions are points on the x axis, in tenths; a direction is -1 or 1.  *)
(* The movement keys are left out of the input: a player stays on its      *)
(* spawn point.  A player id (a random UUID) is the number of its          *)
(* connection.  A bullet carries two history fields: n, its number in      *)
(* bgFired, and age, the ticks that have integrated it.                    *)
(***************************************************************************)
TICK == 50

BULLET_SPEED == 6

BULLET_LIFE == 2000

RADIUS == 5

BULLET_RADIUS == 2

\* connections the server accepts in a run
MaxJoined == 2

\* bullets fired in a run
MaxFired == 2

\* the random spawn points
BulletSpawns == {0, 30}

\* p.input: the payload of an `input` message, or nothing; the direction of
\* a payload that does not shoot is never read
BulletInputs ==
    [defined : {TRUE}, shoot : {TRUE}, dir : {-1, 1}]
        \cup {[defined |-> TRUE, shoot |-> FALSE, dir |-> 1],
              [defined |-> FALSE, shoot |-> FALSE, dir |-> 1]}

\* the player object of the connection handler
NewBulletPlayer(id, pos) ==
    [id |-> id, pos |-> pos, health |-> 100,
     input |-> [defined |-> TRUE, shoot |-> FALSE, dir |-> 1]]

\* step 1 of the tick: every player in turn moves and, with shoot set, pushes
\* a bullet and clears shoot; reading the input of a player that has none
\* throws.  The result is the state where the loop ended.
RECURSIVE StepPlayers(_, _, _, _)
StepPlayers(ps, bs, fired, i) ==
    IF i > Len(ps) THEN [players |-> ps, bullets |-> bs, fired |-> fired, threw |-> FALSE]
    ELSE IF ~ps[i].input.defined
    THEN [players |-> ps, bullets |-> bs, fired |-> fired, threw |-> TRUE]
    ELSE IF ps[i].input.shoot
    THEN StepPlayers([ps EXCEPT ![i].input.shoot = FALSE],
                     Append(bs, [owner |-> ps[i].id, pos |-> ps[i].pos,
                                 dir |-> ps[i].input.dir, life |-> BULLET_LIFE,
                                 n |-> Len(fired) + 1, age |-> 0]),
                     Append(fired, [owner |-> ps[i].id, victims |-> <<>>]),
                     i + 1)
    ELSE StepPlayers(ps, bs, fired, i + 1)

\* one bullet of step 2: it moves and loses TICK of its life
IntegrateBullet(b) ==
    [b EXCEPT !.pos = @ + b.dir * BULLET_SPEED, !.life = @ - TICK, !.age = @ + 1]

\* step 2 that lets a bullet fly one tick on with no life left
IntegrateBulletsLate(bs) ==
    SelectSeq([i \in DOMAIN bs |-> IntegrateBullet(bs[i])], LAMBDA b : b.life >= 0)

\* step 2 of the tick: every bullet is integrated, and spliced out at
\* life <= 0
IntegrateBullets(bs) ==
    SelectSeq([i \in DOMAIN bs |-> IntegrateBullet(bs[i])], LAMBDA b : b.life > 0)

\* the first player, in the order of the Map, that the bullet hits: not its
\* owner, and closer than RADIUS + BULLET_RADIUS; 0 without one
VictimOfAny(ps, b) ==
    LET hit == { j \in DOMAIN ps : Abs(ps[j].pos - b.pos) < RADIUS + BULLET_RADIUS }
    IN  IF hit = {} THEN 0 ELSE CHOOSE j \in hit : \A k \in hit : j <= k

VictimOf(ps, b) ==
    LET hit == { j \in DOMAIN ps : /\ ps[j].id # b.owner
                                   /\ Abs(ps[j].pos - b.pos) < RADIUS + BULLET_RADIUS }
    IN  IF hit = {} THEN 0 ELSE CHOOSE j \in hit : \A k \in hit : j <= k

\* splice(i, 1)
Splice(seq, i) == [k \in 1..(Len(seq) - 1) |-> IF k < i THEN seq[k] ELSE seq[k + 1]]

\* step 3 of the tick: from the last bullet to the first, a bullet that hits
\* a player takes 20 of its health and is spliced out
RECURSIVE Collide(_, _, _, _)
Collide(ps, bs, fired, i) ==
    IF i < 1 THEN [players |-> ps, bullets |-> bs, fired |-> fired]
    ELSE LET j == VictimOf(ps, bs[i])
         IN  IF j = 0 THEN Collide(ps, bs, fired, i - 1)
             ELSE Collide([ps EXCEPT ![j].health = @ - 20],
                          Splice(bs, i),
                          [fired EXCEPT ![bs[i].n].victims = Append(@, ps[j].id)],
                          i - 1)

InitBullets ==
    /\ bgPlayers = <<>>
    /\ bgBullets = <<>>
    /\ bgJoined = 0
    /\ bgCrashed = FALSE
    /\ bgFired = <<>>
    /\ bgLog = {}

\* wss.on('connection')
BgConnect ==
    \E pos \in BulletSpawns :
        /\ ~bgCrashed
        /\ bgJoined < MaxJoined
        /\ bgJoined' = bgJoined + 1
        /\ bgPlayers' = Append(bgPlayers, NewBulletPlayer(bgJoined + 1, pos))
        /\ UNCHANGED <<bgBullets, bgCrashed, bgFired, bgLog>>
        /\ UNCHANGED <<wsVars, ccVars, scVars, sgVars, hbVars, clVars, spVars, ncVars>>

\* ws.on('message') with type 'input': p.input = data.payload
BgMessage ==
    \E i \in DOMAIN bgPlayers, payload \in BulletInputs :
        /\ ~bgCrashed
        /\ payload.shoot =>
               Len(bgFired) + Cardinality({ j \in DOMAIN bgPlayers :
                                              j # i /\ bgPlayers[j].input.shoot }) < MaxFired
        /\ bgPlayers' = [bgPlayers EXCEPT ![i].input = payload]
        /\ UNCHANGED <<bgBullets, bgJoined, bgCrashed, bgFired, bgLog>>
        /\ UNCHANGED <<wsVars, ccVars, scVars, sgVars, hbVars, clVars, spVars, ncVars>>

\* ws.on('close'): players.delete(id)
BgClose ==
    \E i \in DOMAIN bgPlayers :
        /\ ~bgCrashed
        /\ bgPlayers' = Splice(bgPlayers, i)
        /\ UNCHANGED <<bgBullets, bgJoined, bgCrashed, bgFired, bgLog>>
        /\ UNCHANGED <<wsVars, ccVars, scVars, sgVars, hbVars, clVars, spVars, ncVars>>

\* the setInterval callback
BgTick ==
    /\ ~bgCrashed
    /\ LET s1 == StepPlayers(bgPlayers, bgBullets, bgFired, 1)
       IN  IF s1.threw
           THEN /\ bgCrashed' = TRUE
                /\ bgPlayers' = s1.players
                /\ bgBullets' = s1.bullets
                /\ bgFired' = s1.fired
                /\ bgLog' = {}
           ELSE LET moved == [i \in DOMAIN s1.bullets |-> IntegrateBullet(s1.bullets[i])]
                    s2    == IntegrateBullets(s1.bullets)
                    s3    == Collide(s1.players, s2, s1.fired, Len(s2))
                IN  /\ bgCrashed' = FALSE
                    /\ bgPlayers' = s3.players
                    /\ bgBullets' = s3.bullets
                    /\ bgFired' = s3.fired
                    /\ bgLog' = { moved[i].n : i \in { k \in DOMAIN moved : moved[k].life <= 0 } }
    /\ UNCHANGED bgJoined
    /\ UNCHANGED <<wsVars, ccVars, scVars, sgVars, hbVars, clVars, spVars, ncVars>>

(***************************************************************************)
(* Heartbeat                                                               *)
(*                                                                         *)
(* server-game.ts opens two WebSocket servers: this.wss of ServerGame,     *)
(* attached to its HTTP server, whose connections get the roster entries,  *)
(* and the module-level wss on HOST:PORT, whose clients the heartbeat      *)
(* timer pings.  A connection belongs to the server it was made to.        *)
(***************************************************************************)
\* how many connections each of the two servers sees
MaxSockets == 2

\* heartbeat intervals counted for a silent peer
MaxSilent == 2

Sockets == 1..MaxSockets

InitHeartbeat ==
    /\ gameSockets = [c \in Sockets |-> "closed"]
    /\ silentFor = [c \in Sockets |-> 0]
    /\ wssClients = [k \in Sockets |-> "closed"]
    /\ terminated = {}

\* this.wss.on('connection'): the connection gets its roster entry
HbGameConnect ==
    \E c \in Sockets :
        /\ gameSockets[c] = "closed"
        /\ gameSockets' = [gameSockets EXCEPT ![c] = "open"]
        /\ silentFor' = [silentFor EXCEPT ![c] = 0]
        /\ UNCHANGED <<wssClients, terminated, wsVars, ccVars, scVars, sgVars, clVars, spVars, ncVars, bgVars>>

\* the peer of a ServerGame connection stops answering (it sends nothing
\* any more, pongs included)
HbGameSilent ==
    \E c \in Sockets :
        /\ gameSockets[c] = "open"
        /\ gameSockets' = [gameSockets EXCEPT ![c] = "silent"]
        /\ UNCHANGED <<silentFor, wssClients, terminated, wsVars, ccVars, scVars, sgVars, clVars, spVars, ncVars, bgVars>>

\* ws.on('close') of a ServerGame connection: the roster entry is deleted
HbGameClose ==
    \E c \in Sockets :
        /\ gameSockets[c] # "closed"
        /\ gameSockets' = [gameSockets EXCEPT ![c] = "closed"]
        /\ silentFor' = [silentFor EXCEPT ![c] = 0]
        /\ UNCHANGED <<wssClients, terminated, wsVars, ccVars, scVars, sgVars, clVars, spVars, ncVars, bgVars>>

\* wss.on('connection') of the module-level server: _isAlive = true
HbConnect ==
    \E k \in Sockets :
        /\ wssClients[k] = "closed"
        /\ wssClients' = [wssClients EXCEPT ![k] = "alive"]
        /\ terminated' = terminated \ {k}
        /\ UNCHANGED <<gameSockets, silentFor, wsVars, ccVars, scVars, sgVars, clVars, spVars, ncVars, bgVars>>

\* ws.on('pong'): _isAlive = true
HbPong ==
    \E k \in Sockets :
        /\ wssClients[k] = "pinged"
        /\ wssClients' = [wssClients EXCEPT ![k] = "alive"]
        /\ UNCHANGED <<gameSockets, silentFor, terminated, wsVars, ccVars, scVars, sgVars, clVars, spVars, ncVars, bgVars>>

\* what the heartbeat callback does to one of wss.clients: terminate() when
\* _isAlive is false, else _isAlive = false and ping()
HeartbeatOf(s) ==
    IF s = "pinged" THEN "closed" ELSE IF s = "alive" THEN "pinged" ELSE s

\* the setInterval callback, every ServerConfig.pingInterval: it goes over
\* wss.clients, the connections of the module-level server
HbInterval ==
    /\ wssClients' = [k \in Sockets |-> HeartbeatOf(wssClients[k])]
    /\ terminated' = terminated \cup { k \in Sockets : wssClients[k] = "pinged" }
    /\ silentFor' = [c \in Sockets |->
                        IF gameSockets[c] = "silent"
                        THEN IF silentFor[c] < MaxSilent THEN silentFor[c] + 1 ELSE silentFor[c]
                        ELSE 0]
    /\ UNCHANGED <<gameSockets, wsVars, ccVars, scVars, sgVars, clVars, spVars, ncVars, bgVars>>

(***************************************************************************)
(* Client (Game / ClientGame with its NetworkManager)                      *)
(*                                                                         *)
(* Of the client the model keeps the player id the NetworkManager holds,   *)
(* the position of the local CharacterController and the ids that have a   *)
(* remote mesh.  Coordinates are in tenths.                                *)
(***************************************************************************)
\* how far from the origin the local prediction walks in the model
MaxCoordinate == 300

\* how far it moves in one frame
StepLength == 100

\* the ids a message names
WireIds == {0, 1}

\* the positions a message carries: spawnPoints[0] and spawnPoints[1]
WirePositions == {[x |-> -200, y |-> 15, z |-> 0], [x |-> 200, y |-> 15, z |-> 0]}

\* the entries of a player list
WirePlayers == [id : WireIds, position : WirePositions]

\* player lists of up to two entries
WirePlayerLists ==
    {<<>>} \cup {<<p>> : p \in WirePlayers} \cup {<<p, q>> : p \in WirePlayers, q \in WirePlayers}

\* the init messages
InitMessages == [playerId : WireIds, players : WirePlayerLists]

\* Array.prototype.find on p.id === id: the index of the first such entry, 0
\* without one
FindPlayer(list, id) ==
    IF \E i \in DOMAIN list : list[i].id = id
    THEN CHOOSE i \in DOMAIN list :
             list[i].id = id /\ \A j \in DOMAIN list : list[j].id = id => i <= j
    ELSE 0

\* handleInit taking the head of the list for the local player
HandleInitHead(position, msg) ==
    IF Len(msg.players) > 0 THEN msg.players[1].position ELSE position

\* handleInit / the onInit callback of setupNetworkEvents: the position of
\* the local controller after the call
HandleInit(position, msg) ==
    LET me == FindPlayer(msg.players, msg.playerId)
    IN  IF me # 0 THEN msg.players[me].position ELSE position

\* the ids that have a remote mesh after updateOrCreateRemotePlayer ran on
\* every entry of the list
RemoteAfter(remote, list, localId) ==
    remote \cup { list[i].id : i \in { j \in DOMAIN list : list[j].id # localId } }

\* handleGameStateUpdate: updateOrCreateRemotePlayer on every entry, then
\* handlePlayerDisconnected on every key that was not in the snapshot
HandleGameStateUpdate(remote, list, localId) ==
    LET seen == { list[i].id : i \in DOMAIN list }
    IN  { id \in RemoteAfter(remote, list, localId) : id \in seen }

NoClientLog == [type |-> "none", playerId |-> Undefined, players |-> <<>>]

InitClient ==
    /\ clPlayerId = Undefined
    /\ clPosition = [x |-> 0, y |-> 0, z |-> 0]
    /\ clRemote = {}
    /\ clLog = NoClientLog

\* ws.onmessage, case "init": playerId is stored, then onInit runs
ClOnInit ==
    \E msg \in InitMessages :
        /\ clPlayerId' = msg.playerId
        /\ clPosition' = HandleInit(clPosition, msg)
        /\ clRemote' = RemoteAfter(clRemote, msg.players, msg.playerId)
        /\ clLog' = [type |-> "init", playerId |-> msg.playerId, players |-> msg.players]
        /\ UNCHANGED <<wsVars, ccVars, scVars, sgVars, hbVars, spVars, ncVars, bgVars>>

\* ws.onmessage, case "gameState": handleGameStateUpdate
ClOnGameState ==
    \E list \in WirePlayerLists :
        /\ clRemote' = HandleGameStateUpdate(clRemote, list, clPlayerId)
        /\ clLog' = [type |-> "gameState", playerId |-> clPlayerId, players |-> list]
        /\ UNCHANGED <<clPlayerId, clPosition, wsVars, ccVars, scVars, sgVars, hbVars, spVars, ncVars, bgVars>>

\* ws.onmessage, case "playerConnected" and case "playerState":
\* updateOrCreateRemotePlayer on the one player of the message
ClOnPlayer ==
    \E p \in WirePlayers, type \in {"playerConnected", "playerState"} :
        /\ clRemote' = RemoteAfter(clRemote, <<p>>, clPlayerId)
        /\ clLog' = [type |-> type, playerId |-> clPlayerId, players |-> <<p>>]
        /\ UNCHANGED <<clPlayerId, clPosition, wsVars, ccVars, scVars, sgVars, hbVars, spVars, ncVars, bgVars>>

\* one frame of the game loop: the local prediction moves the character
ClUpdate ==
    \E dx \in {-StepLength, 0, StepLength} :
        /\ clPosition.x + dx >= -MaxCoordinate
        /\ clPosition.x + dx <= MaxCoordinate
        /\ clPosition' = [clPosition EXCEPT !.x = @ + dx]
        /\ clLog' = NoClientLog
        /\ UNCHANGED <<clPlayerId, clRemote, wsVars, ccVars, scVars, sgVars, hbVars, spVars, ncVars, bgVars>>

vars == <<wsVars, ccVars, scVars, sgVars, hbVars, clVars, spVars, ncVars, bgVars>>

NextWeapon ==
    \/ WsFire
    \/ WsStartReload
    \/ WsUpdate
    \/ WsSwitchWeapon
    \/ WsSetFiring
    \/ WsAdvance

NextController == CcUpdate

NextServerController == SccUpdate

\* a process runs one of the two controllers: the browser ticks the
\* CharacterController, the server the ServerCharacterController
ClientTick ==
    /\ scc = NewServerController /\ sccSince = NoSince /\ sccLog = NoServerLog
    /\ CcUpdate

ServerTick ==
    /\ cc = NewController
    /\ SccUpdate

NextControllers ==
    \/ ClientTick
    \/ ServerTick

NextServer ==
    \/ SgConnect
    \/ SgMessage
    \/ SgClose
    \/ SgError
    \/ SgStart
    \/ SgStop
    \/ SgTick

NextHeartbeat ==
    \/ HbGameConnect
    \/ HbGameSilent
    \/ HbGameClose
    \/ HbConnect
    \/ HbPong
    \/ HbInterval

NextClient ==
    \/ ClOnInit
    \/ ClOnGameState
    \/ ClOnPlayer
    \/ ClUpdate

NextSpawn ==
    \/ SpConnect
    \/ SpClose

NextBullets ==
    \/ BgConnect
    \/ BgMessage
    \/ BgClose
    \/ BgTick

NextNetworkClient ==
    \/ NcOpen
    \/ NcMessage
    \/ NcClose
    \/ NcTimer

Init ==
    /\ InitWeapon /\ InitController /\ InitServerController /\ InitServer
    /\ InitHeartbeat /\ InitClient /\ InitSpawn /\ InitNetworkClient /\ InitBullets

SpecWeapon == Init /\ [][NextWeapon]_vars

SpecController == Init /\ [][NextController]_vars

SpecServerController == Init /\ [][NextServerController]_vars

SpecControllers == Init /\ [][NextControllers]_vars

SpecServer == Init /\ [][NextServer]_vars

SpecHeartbeat == Init /\ [][NextHeartbeat]_vars

SpecClient == Init /\ [][NextClient]_vars

SpecSpawn == Init /\ [][NextSpawn]_vars

SpecBullets == Init /\ [][NextBullets]_vars

\* the browser runs every timer that is armed
SpecNetworkClient == Init /\ [][NextNetworkClient]_vars /\ WF_vars(NcTimer)

----------------------------------------------------------------------------
\* C1: the ammo of the current weapon stays within 0..magazineSize, and a
\* fire() call made with an empty magazine is rejected.
C1_AmmoBound ==
    /\ weaponState.currentAmmo >= 0
    /\ weaponState.currentAmmo <= WEAPON_CONFIGS[currentWeapon].magazineSize
    /\ (lastFire.weapon # "none" /\ lastFire.preAmmo = 0) => ~lastFire.accepted

\* a fire() was rejected on an empty magazine, and the reload has since
\* completed and refilled that weapon
C1_Witness ==
    /\ lastFire.weapon = currentWeapon
    /\ lastFire.preAmmo = 0
    /\ ~lastFire.accepted
    /\ ~weaponState.isReloading
    /\ weaponState.currentAmmo = WEAPON_CONFIGS[currentWeapon].magazineSize

\* C2: two accepted shots of the same weapon are at least 60000 / fireRate
\* milliseconds apart, also across a switch to another weapon and back.
C2_FireRateBound ==
    (lastFire.accepted /\ lastFire.gap >= 0) => ~TooSoon(lastFire.gap, lastFire.weapon)

\* C3: however long jump is held, jump() is executed at most once between two
\* consecutive airborne-to-grounded transitions of update() (and at most once
\* before the first one).
C3_OneJumpPerLanding == jumpsSinceLanding <= 1

\* after a landing, jump has been held for three ticks from the tick of the
\* one jump() on
C3_Witness ==
    /\ hasLanded
    /\ jumpsSinceLanding = 1
    /\ heldSinceJump = MaxCount
    /\ cc.log.jumpBlock = 0
    /\ cc.isJumping

\* C4: every execution of jump() inside update() happens with canJump true,
\* jumpCooldown <= 0 and the character on the ground or within the coyote-time
\* window.
C4_JumpGuarded ==
    cc.log.jumpBlock # 0 =>
        (cc.log.canJump /\ cc.log.cooldownElapsed /\ cc.log.grounded)

\* C5: a message that is no JSON or lacks its fields is dropped: it leaves
\* every player's latched input a payload, no tick ends in an exception, and
\* while the game runs a next tick is armed.
C5_MalformedDropped ==
    /\ \A i \in DOMAIN players : players[i].input.defined
    /\ ~crashed
    /\ isGameRunning => pendingTicks > 0

\* C6: once a connection has closed, its player is in no roster and in no
\* game-state broadcast, and no tick raises an exception.
C6_ClosedPlayerGone ==
    closedIds # {} =>
        /\ closedIds \cap Ids(players) = {}
        /\ \A i \in DOMAIN sent :
               sent[i].msg.type = "game_state" => sent[i].msg.ids \cap closedIds = {}
        /\ ~crashed

\* C7: the ids given to the connections accepted so far, open or closed, are
\* pairwise different.
C7_IdsUnique ==
    \A c1, c2 \in 1..accepted : c1 # c2 => playerOf[c1] # playerOf[c2]

\* a connection was accepted after an earlier player had disconnected
C7_Witness ==
    /\ accepted >= 2
    /\ playerOf[1] \in closedIds
    /\ playerOf[1] \notin rosterAtConnect[2]

\* C8: the first message sent to a connection is init, with the id given to
\* the connection and the ids of exactly the roster of that moment, its own
\* among them.
C8_FirstIsInit ==
    \A c \in 1..accepted :
        /\ firstMessage[c].type = "init"
        /\ firstMessage[c].playerId = playerOf[c]
        /\ firstMessage[c].ids = rosterAtConnect[c]
        /\ playerOf[c] \in firstMessage[c].ids

\* a second client has connected while the first was in the roster, and has
\* since been sent further messages
C8_Witness ==
    /\ accepted >= 2
    /\ firstMessage[2].ids = {playerOf[1], playerOf[2]}
    /\ \E i \in DOMAIN sent : sent[i].to = 2 /\ sent[i].msg.type = "game_state"

\* C9: player_connect is not sent to the connection of the player it announces.
C9_NotToSelf ==
    \A i \in DOMAIN sent :
        sent[i].msg.type = "player_connect" => playerOf[sent[i].to] # sent[i].msg.playerId

\* C10: a weapon_switch that names no weapon of the table changes no
\* currentWeapon and is not broadcast: the roster holds, and the weapon_switch
\* broadcasts name, weapons of the table only.
C10_UnknownWeaponIgnored ==
    /\ \A i \in DOMAIN players : players[i].currentWeapon \in WeaponType
    /\ \A i \in DOMAIN sent :
           sent[i].msg.type = "weapon_switch" => sent[i].msg.weapon \in WeaponType

\* C11: a step that handles a message from a connection leaves the roster
\* entry of every player other than that connection's own as it was, whatever
\* id the message carries, and adds or removes no entry.
C11_OnlyOwnEntry ==
    [][handled'.conn # 0 =>
          /\ Len(players') = Len(players)
          /\ \A i \in DOMAIN players :
                 players[i].id # playerOf[handled'.conn] => players'[i] = players[i]]_vars

\* the second client has sent a message carrying the first player's id, and
\* its own entry, not the first player's, holds the payload
C11_Witness ==
    /\ handled.conn = 2
    /\ handled.id = playerOf[1]
    /\ 1 \in clients
    /\ players[IndexOf(players, playerOf[2])].input.fire
    /\ ~players[IndexOf(players, playerOf[1])].input.fire

\* C12: a tick runs the character update once for every player of the roster
\* and then sends every open connection one game-state, which lists exactly
\* the ids of the roster.
C12_TickUpdatesAll ==
    lastTick.ran =>
        /\ Len(lastTick.updated) = Cardinality(lastTick.roster)
        /\ { lastTick.updated[i] : i \in DOMAIN lastTick.updated } = lastTick.roster
        /\ \A c \in clients :
               Cardinality({ i \in DOMAIN sent :
                               sent[i].to = c /\ sent[i].msg.type = "game_state" }) = 1
        /\ \A i \in DOMAIN sent :
               sent[i].msg.type = "game_state" /\ sent[i].msg.ids = Ids(players)

\* C13: the input latched for a player is the payload of the last input
\* message of its connection (the all-false input if there was none), ticks
\* leave it as it is, and that latched input is what a tick applies.
C13_LatchedInput ==
    /\ \A c \in clients : players[IndexOf(players, playerOf[c])].input = latest[c]
    /\ lastTick.ran =>
           \A i \in DOMAIN lastTick.updated :
               \E c \in clients :
                   playerOf[c] = lastTick.updated[i] /\ lastTick.applied[i] = latest[c]

\* a tick has applied a fire input that an earlier tick had applied already
\* (the sniper's fire gate is still closed from that tick's shot)
C13_Witness ==
    /\ lastTick.ran
    /\ \E i \in DOMAIN lastTick.updated :
           /\ lastTick.applied[i].fire
           /\ players[i].id = lastTick.updated[i]
           /\ players[i].currentWeapon = "sniper"
           /\ players[i].sinceLastFire > 0
           /\ players[i].sinceLastFire < MaxElapsed

\* C14: a startReload() call made while a reload is in progress, or with a
\* full magazine, leaves the weapon state as it found it; reloadStartTime in
\* particular keeps its value.
C14_StartReloadIdempotent ==
    (/\ lastCall.op = "startReload"
     /\ \/ lastCall.before.isReloading
        \/ lastCall.before.currentAmmo = WEAPON_CONFIGS[currentWeapon].magazineSize)
    => /\ lastCall.after = lastCall.before
       /\ weaponState = lastCall.before

\* startReload() was called during a reload that had started earlier
C14_Witness ==
    /\ lastCall.op = "startReload"
    /\ lastCall.before.isReloading
    /\ lastCall.before.reloadStartTime < now
    /\ weaponState.reloadStartTime = lastCall.before.reloadStartTime

\* C15: an update() call that finds a reload in progress leaves it in progress
\* when less than the configured reloadTime (milliseconds) has passed since
\* reloadStartTime, and otherwise ends it with a full magazine, whether or
\* not the trigger is held.
C15_ReloadCompletes ==
    (lastCall.op = "update" /\ lastCall.before.isReloading) =>
        IF now - lastCall.before.reloadStartTime < WEAPON_CONFIGS[currentWeapon].reloadTime
        THEN lastCall.after.isReloading
        ELSE /\ ~lastCall.after.isReloading
             /\ lastCall.after.currentAmmo = WEAPON_CONFIGS[currentWeapon].magazineSize

\* C16: a tick that starts with the character on the ground, and whose
\* collision check (when the tick gets that far) reports the ground again,
\* ends with isOnGround true, whatever the input.
C16_GroundLock ==
    [][(cc.isOnGround /\ (cc'.log.collided => cc'.log.ground)) => cc'.isOnGround]_vars

\* the same for the ServerCharacterController: a tick whose collision check
\* reports the ground ends with isOnGround true and velocity.y = 0
C16_ServerGroundLock == sccLog.ground => (scc.isOnGround /\ scc.velocityY = 0)

\* C17: after a jump() and a landing, a jump pressed on the ground, after the
\* jump input was released and with the cooldown over, calls jump() again.
C17_JumpAgain ==
    (/\ sccLog.ready
     /\ sccLog.pressed
     /\ sccLog.ground
     /\ sccLog.cooldownElapsed) => sccLog.jumped

\* C18: a wall run is over by the tick at which its accumulated time reaches
\* wallRunMaxTime: after no tick is the character wall-running with
\* wallRunTimer at or past wallRunMaxTime.
C18_WallRunTimeout == cc.isWallRunning => cc.wallRunTimer < wallRunMaxTime

\* C19: the close of a connection removes that connection's player from the
\* roster and leaves every other entry as it was; from then on the ticks go
\* on, and each tick updates every remaining player once and lists exactly
\* the remaining players in the snapshot it sends.
C19_OthersUnaffected ==
    [][/\ closedIds' # closedIds =>
            \E c \in clients \ clients' :
                /\ IndexOf(players', playerOf[c]) = 0
                /\ Len(players') = Len(players) - 1
                /\ \A i \in DOMAIN players :
                       players[i].id # playerOf[c] => \E j \in DOMAIN players' : players'[j] = players[i]
       /\ closedIds' # {} =>
            /\ ~crashed'
            /\ lastTick'.ran =>
                   /\ { lastTick'.updated[i] : i \in DOMAIN lastTick'.updated } = lastTick'.roster
                   /\ Len(lastTick'.updated) = Cardinality(lastTick'.roster)
                   /\ \A i \in DOMAIN sent' :
                          sent'[i].msg.type = "game_state" => sent'[i].msg.ids = Ids(players')
                   /\ \A c \in clients' : \E i \in DOMAIN sent' :
                          sent'[i].to = c /\ sent'[i].msg.type = "game_state"]_vars

\* C20: a connection with a roster entry whose peer has left a whole
\* heartbeat interval unanswered is terminated at the interval that ends it:
\* no connection of ServerGame is still there, silent, after two heartbeat
\* intervals.
C20_SilentTerminated ==
    \A c \in Sockets : gameSockets[c] = "silent" => silentFor[c] < MaxSilent

\* C21: after the init message is handled, and before any frame of the game
\* loop runs, the local character stands exactly where the message's player
\* list puts the local player id.
C21_InitSetsPosition ==
    (clLog.type = "init" /\ FindPlayer(clLog.players, clLog.playerId) # 0) =>
        /\ clPlayerId = clLog.playerId
        /\ \E i \in DOMAIN clLog.players :
               /\ clLog.players[i].id = clLog.playerId
               /\ \A j \in 1..(i - 1) : clLog.players[j].id # clLog.playerId
               /\ clPosition = clLog.players[i].position

\* an init message listed another player before the local one, at another
\* position, and the character stands at the local player's
C21_Witness ==
    /\ clLog.type = "init"
    /\ Len(clLog.players) = 2
    /\ clLog.players[1].id # clLog.playerId
    /\ clLog.players[2].id = clLog.playerId
    /\ clLog.players[1].position # clLog.players[2].position
    /\ clPosition = clLog.players[2].position

\* C22: the colliders of the server are those buildWorld() put there, where
\* it put them: no tick and no message handler adds, removes or moves one.
C22_CollidersReadOnly == objects = BuildWorld

\* after a connection has closed, a tick has updated a player who fires (the
\* collision query and the weapon raycast have run over the colliders)
C22_Witness ==
    /\ lastTick.ran
    /\ closedIds # {}
    /\ \E i \in DOMAIN lastTick.updated : lastTick.applied[i].fire
    /\ objects = BuildWorld

\* C23: the k-th accepted connection (k from 0) starts at spawn point
\* k mod 4, whatever disconnects happened in between, and
\* currentSpawnPointIndex stays in 0..3.
C23_RoundRobin ==
    /\ spIndex \in 0..(spawnPoints - 1)
    /\ \A k \in DOMAIN spSpawnOf : spSpawnOf[k] = (k - 1) % spawnPoints
    /\ \A i \in DOMAIN spPlayers : spPlayers[i].spawn = spPlayers[i].id % spawnPoints

\* six connections were accepted, all but the last have left: the index has
\* wrapped, and the sixth stands where the second stood
C23_Witness ==
    /\ Len(spSpawnOf) = 6
    /\ Len(spPlayers) = 1
    /\ spPlayers[1].id = 5
    /\ spPlayers[1].spawn = 1
    /\ spSpawnOf[2] = 1

\* C24: a call of fire() that is rejected (reloading, no ammunition, or the
\* interval between shots not yet elapsed) returns false and leaves
\* currentAmmo, lastFireTime, isReloading and reloadStartTime as they were.
C24_RejectedFireNoChange ==
    [][(WsFire /\ FireRejected(weaponState, currentWeapon, now))
          => /\ ~lastFire'.accepted
             /\ weaponState'.currentAmmo = weaponState.currentAmmo
             /\ weaponState'.lastFireTime = weaponState.lastFireTime
             /\ weaponState'.isReloading = weaponState.isReloading
             /\ weaponState'.reloadStartTime = weaponState.reloadStartTime]_vars

\* fire() was just refused for the interval alone: the weapon is loaded and
\* not reloading, the last shot is less than the interval back
C24_Witness ==
    /\ lastFire.weapon = currentWeapon
    /\ ~lastFire.accepted
    /\ lastCall = NoCall
    /\ ~weaponState.isReloading
    /\ weaponState.currentAmmo > 0
    /\ lastFire.preAmmo = weaponState.currentAmmo
    /\ TooSoon(now - weaponState.lastFireTime, currentWeapon)

\* C25: after every tick at most one of isWallRunning, isGrabbingLedge and
\* isMantling is true.
C25_OneMode ==
    /\ ~(cc.isWallRunning /\ cc.isGrabbingLedge)
    /\ ~(cc.isWallRunning /\ cc.isMantling)
    /\ ~(cc.isGrabbingLedge /\ cc.isMantling)

\* C26: a tick that starts with the character wall-running, hanging on a
\* ledge or mantling applies neither gravity nor the input-driven horizontal
\* acceleration to the velocity.
C26_ModesSuspendMovement ==
    [][(cc.isWallRunning \/ cc.isGrabbingLedge \/ cc.isMantling)
          => (cc'.log.gravity = 0 /\ cc'.log.accel = 0)]_vars

\* C27: a tick with jump pressed while the character hangs on a ledge starts
\* the mantle instead of a jump: however the tick goes, after it isMantling
\* is true, isGrabbingLedge is false, and jump() was not called in it.
C27_JumpOnLedgeMantles ==
    cc.isGrabbingLedge =>
        \A in \in Inputs, dt \in DeltaTimes :
            in.jump => \A r \in Update(cc, in, dt) :
                           /\ r.isMantling
                           /\ ~r.isGrabbingLedge
                           /\ r.log.jumpBlock = 0

\* C28: while wall-running, a tick whose movement input has a magnitude
\* below 0.2, the zero vector included, ends the wall-run: however the tick
\* goes, isWallRunning is false after it.
C28_LowInputEndsWallRun ==
    cc.isWallRunning =>
        \A in \in Inputs, dt \in DeltaTimes :
            LengthSq(NormInput(in.dir)) < 4 =>
                \A r \in Update(cc, in, dt) : ~r.isWallRunning

\* C29: once mantling has started it ends after finitely many ticks: every
\* tick of a mantling character either completes the mantle (isMantling
\* false, ledge point and normal cleared) or leaves it mantling with a
\* mantleProgress that is strictly larger and still below 1.
C29_MantlingEnds ==
    [][cc.isMantling
          => \/ cc'.log.mantled /\ ~cc'.isMantling /\ ~cc'.hasLedge
             \/ /\ cc'.isMantling
                /\ cc'.mantleProgress > cc.mantleProgress
                /\ cc'.mantleProgress < 1000]_vars

\* a mantle was just completed
C29_Witness ==
    /\ cc.log.mantled
    /\ ~cc.isMantling
    /\ ~cc.hasLedge
    /\ cc.mantleProgress = 0

\* C30: the gravity step clamps the fall speed: the downward vertical speed
\* of an airborne character stays below a fixed terminal fall speed, here
\* any speed below the one up to which the velocity is followed.
C30_TerminalFallSpeed == -scc.velocityY < MaxFallSpeed

\* C31: after every tick of the CharacterController and of the
\* ServerCharacterController, isCrouching and isSprinting are not both true.
C31_NoCrouchSprint ==
    /\ ~(cc.isCrouching /\ cc.isSprinting)
    /\ ~(scc.isCrouching /\ scc.isSprinting)

\* a tick has left the character sprinting, and a next tick with crouch and
\* sprint both held ends crouched and not sprinting, however it goes
C31_Witness ==
    /\ cc.isSprinting
    /\ cc.log.accel > 0
    /\ \E in \in Inputs, dt \in DeltaTimes :
           /\ in.crouch /\ in.sprint
           /\ \A r \in Update(cc, in, dt) : r.isCrouching /\ ~r.isSprinting

\* C32: after every tick height and eyeHeight follow the crouch flag alone:
\* crouchHeight and crouchEyeHeight when isCrouching, standingHeight and
\* standingEyeHeight otherwise.
C32_HeightFollowsCrouch ==
    /\ cc.height = IF cc.isCrouching THEN crouchHeight ELSE standingHeight
    /\ cc.eyeHeight = IF cc.isCrouching THEN crouchEyeHeight ELSE standingEyeHeight

\* a tick ended with the character crouched, at crouch height
C32_Witness ==
    /\ cc.log.accel > 0
    /\ cc.isCrouching
    /\ cc.height = crouchHeight
    /\ cc.eyeHeight = crouchEyeHeight

\* C33: after every close of the NetworkClient's socket a new connection
\* attempt is eventually made, also when the socket that closed was a
\* reconnect attempt that never opened.
C33_Reconnects == (ncWs = "closed" /\ ncAttempts < MaxAttempts) ~> (ncWs = "connecting")

\* C34: whatever the interleaving of start(), stop() and timer firings, at
\* most one tick is pending at any time.
C34_OneTickPending == pendingTicks <= 1

\* C35: jump() returns normally: a tick in which update() accepts a ground
\* jump runs to its end, and ends with canJump false and the jump cooldown
\* started.
C35_GroundJumpCompletes ==
    cc.log.jumpBlock = 1 =>
        /\ ~cc.log.thrown
        /\ cc.log.collided
        /\ ~cc.canJump
        /\ cc.jumpCooldown = JUMP_COOLDOWN

C38_BulletsExpire ==
    \A i \in DOMAIN bgBullets :
        /\ bgBullets[i].life = BULLET_LIFE - bgBullets[i].age * TICK
        /\ bgBullets[i].age < BULLET_LIFE \div TICK
        /\ bgBullets[i].life > 0

\* the last tick removed a bullet that had flown its whole life and hit
\* nobody
C38_Witness ==
    \E n \in bgLog :
        /\ bgFired[n].victims = <<>>
        /\ \A i \in DOMAIN bgBullets : bgBullets[i].n # n

=============================================================================
